---- MODULE Spec2Model ----
(***************************************************************************)
(* Model of the tap game server (server/index.js, server/db.js).           *)
(*                                                                         *)
(* Storage is the two PostgreSQL tables players and game_state.  Every     *)
(* q(...) call of the handlers is one SQL statement and therefore one      *)
(* atomic step; between two awaits of a handler the statements of other    *)
(* requests may run.  A request is a process whose pc names the statement  *)
(* it will issue next.                                                     *)
(*                                                                         *)
(* Units: time is in milliseconds (Date.now()), energy is kept in          *)
(* thousandths of a unit, so that energy + regen_per_sec * dt with         *)
(* dt = ms / 1000 stays an integer: energy_thousandths + regen * ms.       *)
(***************************************************************************)
EXTENDS Integers, Sequences, FiniteSets, TLC

\* ---------------------------------------------------------------- bounds
NumReqs == 2        \* requests in one behaviour
NumUsers == 2       \* external (Telegram) user ids 1..NumUsers of SpecPair
MaxTicks == 1       \* how often the clock advances
TickMs == 750       \* milliseconds per clock step
MaxLegacyTaps == 2  \* taps applied after a start-up repair
NumBoardPlayers == 11  \* players stored when the leaderboard is read
MaxReads == 2       \* leaderboard reads in one behaviour

\* ------------------------------------------------------ program constants
MilliPerSec == 1000
DefaultTokens == 0
DefaultLevel == 1
DefaultTapPower == 1
DefaultEnergy == 100
DefaultCap == 100
DefaultRegen == 2
MinUpgradeCost == 10
CostPerTapPower == 20
TapEnergy == 1
NullNum == -999999   \* SQL NULL in a numeric or timestamp column
BoardLimit == 10

Reqs == 1..NumReqs
\* Spec serves the requests of one user: requests of different users touch
\* different rows (C22, checked under SpecPair with the users 1..NumUsers)
TgIds == {1}
PairIds == 1..NumUsers
Kinds == {"auth", "tap", "upgrade"}
Creds == {"ok", "missing", "nohash", "badhash", "nouser", "noid"}
NULL == "NULL"
Usernames == {NULL, "al"}

\* number of back-to-back taps (zero elapsed time) a fresh player has made
\* before the behaviour starts
InitTaps == {25, 99, 100}

VARIABLES
  players,         \* table players: set of rows
  game_state,      \* table game_state: set of rows
  players_id_seq,  \* the SERIAL sequence of players.id
  clock,           \* the current time, ms
  pc,              \* per request: the statement it issues next
  req,             \* per request: route and credential
  loc,             \* per request: the handler's local variables
  resp,            \* per request: the response sent
  gs0,             \* history: game_state at the start of the behaviour
  solo,            \* history: the request has run with no other request of
                   \* its player in flight
  booted,          \* initTables has run (the server listens)
  stamped,         \* table game_state has the column last_update
  starting,        \* a server process in initTables: the statement it issues next
  verify,          \* an initData under validation on its own, and the verdict
  board            \* the answers of the leaderboard reads so far

\* the variables the tap, upgrade and auth handlers never touch
aside == <<booted, stamped, starting, verify, board>>

vars == <<players, game_state, players_id_seq, clock, pc, req, loc, resp, gs0, solo, aside>>

Min(a, b) == IF a <= b THEN a ELSE b
Max(a, b) == IF a >= b THEN a ELSE b

\* energy units -> thousandths
Milli(x) == x * MilliPerSec

\* Number(v) of a column value: Number(null) is 0
Num(v) == IF v = NullNum THEN 0 ELSE v

\* safeNum(v, d): Number(v) if it is a finite number > 0, else d
safeNum(v, d) == IF Num(v) > 0 THEN Num(v) ELSE d

\* mutant: the cost of the tap_power after the upgrade
UpgradeCost_NextPower(tap_power) ==
  Max(MinUpgradeCost, (safeNum(tap_power, DefaultTapPower) + 1) * CostPerTapPower)

\* Math.max(10, safeNum(tap_power, 1) * 20)
UpgradeCost(tap_power) ==
  Max(MinUpgradeCost, safeNum(tap_power, DefaultTapPower) * CostPerTapPower)

\* mutant: the catch-up is not clipped at cap
RegenEnergy_NoCap(st, now) ==
  LET last == IF st.last_update = NullNum THEN now ELSE st.last_update
  IN  Num(st.energy) + safeNum(st.regen_per_sec, DefaultRegen) * Max(0, now - last)

\* applyRegen's computation: min(cap, energy + regen * dt), dt = max(0, now - last) / 1000
\* last = st.last_update || Date.now(); energy read as Number(st.energy || 0)
RegenEnergy(st, now) ==
  LET last == IF st.last_update = NullNum THEN now ELSE st.last_update
      dt == Max(0, now - last)
      cap == safeNum(st.cap, DefaultCap)
      regen == safeNum(st.regen_per_sec, DefaultRegen)
  IN  Min(Milli(cap), Num(st.energy) + regen * dt)

\* a new game_state row: the column defaults
NewGameState(pid, now) ==
  [player_id |-> pid, tokens |-> DefaultTokens, level |-> DefaultLevel,
   tap_power |-> DefaultTapPower, energy |-> Milli(DefaultEnergy),
   cap |-> DefaultCap, regen_per_sec |-> DefaultRegen, last_update |-> now]

\* ----------------------------------------------------------------- tables
PlayerRows(tg) == {p \in players : p.tg_user_id = tg}
\* mutant: the rows are not filtered by player_id
StateRows_AnyPlayer(pid) == game_state
\* the rows "WHERE player_id=$1" selects
StateRows(pid) == {g \in game_state : g.player_id = pid}
PlayerOf(tg) == CHOOSE p \in players : p.tg_user_id = tg
StateOf(pid) == CHOOSE g \in game_state : g.player_id = pid

\* ------------------------------------------------------------- responses
NaN == -1
NoState == [tokens |-> 0, level |-> 0, tap_power |-> 0, energy |-> 0,
            cap |-> 0, regen_per_sec |-> 0, upgrade_cost |-> 0]
NoResp == [status |-> 0, ok |-> FALSE, error |-> "", state |-> NoState]
NoLoc == [pid |-> 0, rows |-> {}, energy |-> 0, cost |-> 0, applied |-> FALSE]
NoReq == [kind |-> "auth", tg |-> 1, cred |-> "ok", username |-> NULL]

\* loadState(player_id): the row with defensive defaults, or defaults of {}
LoadedState(pid) ==
  IF StateRows(pid) = {}
  THEN [tokens |-> 0, level |-> DefaultLevel, tap_power |-> DefaultTapPower,
        energy |-> NaN, cap |-> DefaultCap, regen_per_sec |-> DefaultRegen,
        upgrade_cost |-> UpgradeCost(DefaultTapPower)]
  ELSE LET s == StateOf(pid)
       IN [tokens |-> Num(s.tokens),
           level |-> IF Num(s.level) = 0 THEN DefaultLevel ELSE s.level,
           tap_power |-> safeNum(s.tap_power, DefaultTapPower),
           energy |-> Min(Milli(safeNum(s.cap, DefaultCap)), Num(s.energy)),
           cap |-> safeNum(s.cap, DefaultCap),
           regen_per_sec |-> safeNum(s.regen_per_sec, DefaultRegen),
           upgrade_cost |-> UpgradeCost(safeNum(s.tap_power, DefaultTapPower))]

\* the state object built from an UPDATE ... RETURNING row
ReturnedState(s) ==
  [tokens |-> s.tokens, level |-> s.level,
   tap_power |-> safeNum(s.tap_power, DefaultTapPower),
   energy |-> s.energy,
   cap |-> safeNum(s.cap, DefaultCap),
   regen_per_sec |-> safeNum(s.regen_per_sec, DefaultRegen),
   upgrade_cost |-> UpgradeCost(s.tap_power)]

Reply(status, ok, error, state) ==
  [status |-> status, ok |-> ok, error |-> error, state |-> state]

\* HTTP status of the catch block of each route
CatchStatus(kind) == IF kind = "auth" THEN 401 ELSE 400

\* ----------------------------------------------------- initData validation
\* initData is held as URLSearchParams yields it: a sequence of <<key, value>>
\* entries; the empty sequence is the empty (or absent) string.
BotToken == "bot-token"

\* the field names that occur, in the order of JavaScript's a < b on strings
FieldOrder == <<"auth_date", "hash", "query_id", "user">>
KeyRank(k) == CHOOSE i \in DOMAIN FieldOrder : FieldOrder[i] = k
KeyLess(a, b) == KeyRank(a) < KeyRank(b)

HasKey(data, k) == \E i \in DOMAIN data : data[i][1] = k

\* data[k] = v on an object whose own keys keep their insertion order
SetEntry(data, k, v) ==
  IF HasKey(data, k)
  THEN [i \in DOMAIN data |-> IF data[i][1] = k THEN <<k, v>> ELSE data[i]]
  ELSE Append(data, <<k, v>>)

RECURSIVE ParseInto(_, _)
ParseInto(data, entries) ==
  IF entries = <<>> THEN data
  ELSE ParseInto(SetEntry(data, Head(entries)[1], Head(entries)[2]), Tail(entries))

\* parseInitData: for (const [k, v] of params.entries()) data[k] = v
ParseInitData(entries) == ParseInto(<<>>, entries)

\* data[k]; undefined and "" are both falsy and are both read as ""
Field(data, k) ==
  IF HasKey(data, k) THEN data[CHOOSE i \in DOMAIN data : data[i][1] = k][2] ELSE ""

RECURSIVE InsertSorted(_, _)
InsertSorted(sorted, e) ==
  IF sorted = <<>> THEN <<e>>
  ELSE IF KeyLess(e[1], Head(sorted)[1]) THEN <<e>> \o sorted
  ELSE <<Head(sorted)>> \o InsertSorted(Tail(sorted), e)

\* mutant: the entries are left in the order they arrived in
SortEntries_Unsorted(es) == es

\* .sort(([a], [b]) => (a < b ? -1 : a > b ? 1 : 0))
RECURSIVE SortEntries(_)
SortEntries(es) ==
  IF es = <<>> THEN <<>>
  ELSE InsertSorted(SortEntries(SubSeq(es, 1, Len(es) - 1)), es[Len(es)])

RECURSIVE JoinLines(_)
JoinLines(lines) ==
  IF lines = <<>> THEN ""
  ELSE IF Len(lines) = 1 THEN lines[1]
  ELSE lines[1] \o "\n" \o JoinLines(Tail(lines))

\* the data_check_string: the entries but hash, sorted by key, "k=v" per line
DataCheckString(data) ==
  LET es == SortEntries(SelectSeq(data, LAMBDA e : e[1] # "hash"))
  IN  JoinLines([i \in DOMAIN es |-> es[i][1] \o "=" \o es[i][2]])

\* crypto.createHmac("sha256", key).update(msg).digest(): taken to be free of
\* collisions, so the digest is written as the pair it was computed from
Hmac(key, msg) == "hmac<" \o key \o "|" \o msg \o ">"

\* the user object of initData; id = 0 stands for a missing id
\* A user that has a username has a first_name as well; last_name and
\* photo_url are absent.
NullUser == [null |-> TRUE, id |-> 0, username |-> NULL, first_name |-> NULL,
             last_name |-> NULL, photo_url |-> NULL]
UserObj(id, un) ==
  [null |-> FALSE, id |-> id, username |-> un,
   first_name |-> IF un = NULL THEN NULL ELSE "Al",
   last_name |-> NULL, photo_url |-> NULL]

\* the JSON text of a user object
UserJson(id, un) ==
  "{" \o (IF id = 0 THEN "" ELSE "\"id\":" \o ToString(id))
      \o (IF un = NULL THEN ""
          ELSE (IF id = 0 THEN "" ELSE ",") \o "\"username\":\"" \o un \o "\""
               \o ",\"first_name\":\"Al\"")
      \o "}"

\* JSON.parse(data.user)
JsonParse(text) ==
  CHOOSE u \in {UserObj(id, un) : id \in {0} \cup PairIds, un \in Usernames} :
    UserJson(u.id, u.username) = text

Verdict(error, user) == [error |-> error, user |-> user]

\* mutant: the hash is not compared
ValidateInitData_NoCompare(entries, botToken) ==
  IF entries = <<>> THEN Verdict("Missing initData", NullUser)
  ELSE LET data == ParseInitData(entries)
       IN  IF Field(data, "hash") = "" THEN Verdict("Missing hash", NullUser)
           ELSE Verdict("", IF Field(data, "user") # ""
                            THEN JsonParse(Field(data, "user")) ELSE NullUser)

\* validateInitData: the error thrown ("" when none) and the user returned
ValidateInitData(entries, botToken) ==
  IF entries = <<>> THEN Verdict("Missing initData", NullUser)
  ELSE LET data == ParseInitData(entries)
           hash == Field(data, "hash")
           secret == Hmac("WebAppData", botToken)
           check == Hmac(secret, DataCheckString(data))
       IN  IF hash = "" THEN Verdict("Missing hash", NullUser)
           ELSE IF check # hash THEN Verdict("Bad initData hash", NullUser)
           ELSE Verdict("", IF Field(data, "user") # ""
                            THEN JsonParse(Field(data, "user")) ELSE NullUser)

\* the hash validateInitData expects for the fields
HashOf(fields, botToken) ==
  Hmac(Hmac("WebAppData", botToken), DataCheckString(ParseInitData(fields)))

\* Telegram's side: the hash field appended to the fields it signs
Signed(fields, botToken) == Append(fields, <<"hash", HashOf(fields, botToken)>>)

\* the initData a request carries, by the class of its credential
InitDataOf(cred, tg, un) ==
  LET fields == <<<<"user", UserJson(tg, un)>>, <<"auth_date", "1">>>>
  IN  CASE cred = "ok" -> Signed(fields, BotToken)
        [] cred = "missing" -> <<>>
        [] cred = "nohash" -> fields
        [] cred = "badhash" -> Signed(fields, "other-token")
        [] cred = "nouser" -> Signed(<<<<"auth_date", "1">>>>, BotToken)
        [] OTHER -> Signed(<<<<"user", UserJson(0, un)>>, <<"auth_date", "1">>>>, BotToken)

\* no initData is under validation on its own
NoVerify == [signed |-> <<>>, initData |-> <<>>, verdict |-> Verdict("", NullUser),
             done |-> FALSE]

\* what validateInitData makes of each request's initData
Validated ==
  [cred \in Creds, tg \in PairIds, un \in Usernames |->
     ValidateInitData(InitDataOf(cred, tg, un), BotToken)]

\* ------------------------------------------------------------------- Init
InitDb ==
  \/ /\ players = {}
     /\ game_state = {}
     /\ players_id_seq = 0
  \/ \E t \in InitTaps :
       /\ players = {[id |-> 1, tg_user_id |-> 1, username |-> "al",
                       first_name |-> "Al", last_name |-> "Li",
                       photo_url |-> "al.png"]}
       /\ game_state = {[NewGameState(1, 0) EXCEPT
                           !.tokens = t * DefaultTapPower,
                           !.energy = Milli(DefaultEnergy - t * TapEnergy)]}
       /\ players_id_seq = 1

Init ==
  /\ InitDb
  /\ clock = 0
  /\ pc = [r \in Reqs |-> "idle"]
  /\ req = [r \in Reqs |-> NoReq]
  /\ loc = [r \in Reqs |-> NoLoc]
  /\ resp = [r \in Reqs |-> NoResp]
  /\ gs0 = game_state
  /\ solo = [r \in Reqs |-> TRUE]
  /\ booted = TRUE
  /\ stamped = TRUE
  /\ starting = "no"
  /\ verify = NoVerify
  /\ board = <<>>

\* ---------------------------------------------------------------- helpers
Finish(r, reply) ==
  /\ pc' = [pc EXCEPT ![r] = "done"]
  /\ resp' = [resp EXCEPT ![r] = reply]

InFlight(r) == pc[r] \notin {"idle", "done"}

\* where a handler continues after "await applyRegen(pid)"
AfterRegen(kind) ==
  CASE kind = "auth" -> "load_state"
    [] kind = "tap" -> "tap_update"
    [] OTHER -> "upgrade_read"

\* ---------------------------------------------------------------- actions
\* The clock (Date.now() and NOW() are taken to be one clock).
Tick ==
  /\ clock < MaxTicks * TickMs
  /\ clock' = clock + TickMs
  /\ UNCHANGED <<players, game_state, players_id_seq, pc, req, loc, resp, gs0, solo, aside>>

\* user.username || null
OrNull(v) == IF v = "" THEN NULL ELSE v

\* the row INSERT INTO players (tg_user_id, username, first_name, last_name,
\* photo_url) VALUES ($1,$2,$3,$4,$5) proposes
PlayerRow(id, tg, user) ==
  [id |-> id, tg_user_id |-> tg,
   username |-> OrNull(user.username), first_name |-> OrNull(user.first_name),
   last_name |-> OrNull(user.last_name), photo_url |-> OrNull(user.photo_url)]

\* mutant: a plain INSERT, no ON CONFLICT
UpsertPlayer_NoConflict(tg, user) ==
  players \cup {PlayerRow(players_id_seq + 1, tg, user)}

\* mutant: on conflict a stored value is kept where the incoming one is null
UpsertPlayer_KeepOld(tg, user) ==
  LET keep(old, new) == IF OrNull(new) = NULL THEN old ELSE new
  IN  IF PlayerRows(tg) = {}
      THEN players \cup {PlayerRow(players_id_seq + 1, tg, user)}
      ELSE {IF p.tg_user_id = tg
            THEN [p EXCEPT !.username = keep(p.username, user.username),
                           !.first_name = keep(p.first_name, user.first_name),
                           !.last_name = keep(p.last_name, user.last_name),
                           !.photo_url = keep(p.photo_url, user.photo_url)]
            ELSE p : p \in players}

\* ensurePlayer, first statement: INSERT INTO players ... ON CONFLICT
\* (tg_user_id) DO UPDATE ... RETURNING id.  The SERIAL default is evaluated
\* before the conflict is detected, so the sequence advances either way.
UpsertPlayer(tg, user) ==
  IF PlayerRows(tg) = {}
  THEN players \cup {PlayerRow(players_id_seq + 1, tg, user)}
  ELSE {IF p.tg_user_id = tg
        THEN [p EXCEPT !.username = OrNull(user.username),
                       !.first_name = OrNull(user.first_name),
                       !.last_name = OrNull(user.last_name),
                       !.photo_url = OrNull(user.photo_url)]
        ELSE p : p \in players}

EnsurePlayer(r, tg, user) ==
  /\ players' = UpsertPlayer(tg, user)
  /\ players_id_seq' = players_id_seq + 1
  /\ loc' = [loc EXCEPT ![r].pid = (CHOOSE p \in players' : p.tg_user_id = tg).id]
  /\ pc' = [pc EXCEPT ![r] = "ensure_state"]
  /\ UNCHANGED resp

\* mutant: a player that is not found is created
FindPlayer_AutoCreate(r, tg) ==
  /\ players' = UpsertPlayer(tg, NullUser)
  /\ players_id_seq' = players_id_seq + 1
  /\ loc' = [loc EXCEPT ![r].pid = (CHOOSE p \in players' : p.tg_user_id = tg).id]
  /\ pc' = [pc EXCEPT ![r] = "regen_read"]
  /\ UNCHANGED resp

\* "SELECT id FROM players WHERE tg_user_id=$1" of tap and upgrade
FindPlayer(r, tg) ==
  /\ IF PlayerRows(tg) = {}
     THEN /\ Finish(r, Reply(400, FALSE, "Player not found", NoState))
          /\ UNCHANGED loc
     ELSE /\ loc' = [loc EXCEPT ![r].pid = PlayerOf(tg).id]
          /\ pc' = [pc EXCEPT ![r] = "regen_read"]
          /\ UNCHANGED resp
  /\ UNCHANGED <<players, players_id_seq>>

\* A request is served: requireEnv, validateInitData and (auth) the user
\* check run synchronously, then the handler's first statement is issued.
\* (The handler touches nothing shared before that statement, so its arrival
\* and the statement are one step.)
StartFrom(r, ids) ==
  /\ pc[r] = "idle"
  /\ \A q \in Reqs : q < r => pc[q] # "idle"
  /\ \E kind \in Kinds, tg \in ids, cred \in Creds, un \in Usernames :
       /\ (kind = "auth" /\ cred = "ok") \/ un = NULL
       /\ cred = "ok" \/ tg = 1
       /\ req' = [req EXCEPT ![r] = [kind |-> kind, tg |-> tg, cred |-> cred,
                                      username |-> un]]
       /\ LET v == Validated[cred, tg, un]
              user == v.user
          IN CASE v.error # "" ->
                    /\ Finish(r, Reply(CatchStatus(kind), FALSE, v.error, NoState))
                    /\ UNCHANGED <<players, players_id_seq, loc>>
               [] v.error = "" /\ kind = "auth" /\ user.id = 0 ->
                    /\ Finish(r, Reply(401, FALSE, "No user in initData", NoState))
                    /\ UNCHANGED <<players, players_id_seq, loc>>
               [] v.error = "" /\ kind # "auth" /\ user.null ->
                    /\ Finish(r, Reply(400, FALSE, "TypeError", NoState))
                    /\ UNCHANGED <<players, players_id_seq, loc>>
               [] v.error = "" /\ kind = "auth" /\ user.id # 0 ->
                    EnsurePlayer(r, user.id, user)
               [] OTHER -> FindPlayer(r, user.id)
       /\ solo' = [q \in Reqs |->
                    IF q = r THEN \A x \in Reqs \ {r} : ~(InFlight(x) /\ req[x].tg = tg)
                    ELSE IF cred = "ok" /\ InFlight(q) /\ req[q].tg = tg THEN FALSE
                    ELSE solo[q]]
  /\ UNCHANGED <<game_state, clock, gs0, aside>>

\* a request with a valid initData
Start(r) ==
  /\ StartFrom(r, TgIds)
  /\ req'[r].cred = "ok"

\* ensurePlayer, second statement: INSERT INTO game_state (player_id)
\* ... ON CONFLICT (player_id) DO NOTHING
InsertStateIfAbsent(pid, now) ==
  IF StateRows(pid) = {} THEN game_state \cup {NewGameState(pid, now)}
  ELSE game_state

EnsureState(r) ==
  /\ pc[r] = "ensure_state"
  /\ game_state' = InsertStateIfAbsent(loc[r].pid, clock)
  /\ pc' = [pc EXCEPT ![r] = "regen_read"]
  /\ UNCHANGED <<players, players_id_seq, clock, req, loc, resp, gs0, solo, aside>>

\* applyRegen, the SELECT executes in the database; "if (!rows[0]) return"
\* reads nothing shared and is taken with it
RegenRead(r) ==
  /\ pc[r] = "regen_read"
  /\ IF StateRows(loc[r].pid) = {}
     THEN /\ pc' = [pc EXCEPT ![r] = AfterRegen(req[r].kind)]
          /\ UNCHANGED loc
     ELSE /\ loc' = [loc EXCEPT ![r].rows = StateRows(loc[r].pid)]
          /\ pc' = [pc EXCEPT ![r] = "regen_calc"]
  /\ UNCHANGED <<players, game_state, players_id_seq, clock, req, resp, gs0, solo, aside>>

\* applyRegen, the continuation after the SELECT: the rows have reached the
\* handler, Date.now() is read, the new energy is computed and the UPDATE
\* is issued
RegenCalc(r) ==
  /\ pc[r] = "regen_calc"
  /\ loc' = [loc EXCEPT ![r].energy = RegenEnergy(CHOOSE st \in loc[r].rows : TRUE, clock),
                        ![r].rows = {}]
  /\ pc' = [pc EXCEPT ![r] = "regen_write"]
  /\ UNCHANGED <<players, game_state, players_id_seq, clock, req, resp, gs0, solo, aside>>

\* applyRegen, "UPDATE game_state SET energy=$1, last_update=NOW() WHERE player_id=$2"
RegenRow(g, energy, now) == [g EXCEPT !.energy = energy, !.last_update = now]

RegenWrite(r) ==
  /\ pc[r] = "regen_write"
  /\ game_state' = {IF g.player_id = loc[r].pid
                    THEN RegenRow(g, loc[r].energy, clock) ELSE g : g \in game_state}
  /\ pc' = [pc EXCEPT ![r] = AfterRegen(req[r].kind)]
  /\ loc' = [loc EXCEPT ![r].energy = 0]
  /\ UNCHANGED <<players, players_id_seq, clock, req, resp, gs0, solo, aside>>

\* the tap UPDATE: WHERE ... AND energy >= 1
TapGuard(g) == g.energy >= Milli(TapEnergy)

\* mutant: the tap UPDATE stamps the row with the epoch
TapRow_Epoch(g, now) ==
  [g EXCEPT !.energy = Max(0, g.energy - Milli(TapEnergy)),
            !.tokens = g.tokens + g.tap_power,
            !.last_update = 0]

\* the tap UPDATE: SET energy = GREATEST(0, energy - 1), tokens = tokens + tap_power
TapRow(g, now) ==
  [g EXCEPT !.energy = Max(0, g.energy - Milli(TapEnergy)),
            !.tokens = g.tokens + g.tap_power,
            !.last_update = now]

TapUpdate(r) ==
  /\ pc[r] = "tap_update"
  /\ LET hit == {g \in StateRows(loc[r].pid) : TapGuard(g)}
     IN IF hit = {}
        THEN /\ pc' = [pc EXCEPT ![r] = "load_state"]
             /\ UNCHANGED <<game_state, resp, loc>>
        ELSE /\ game_state' = {IF g \in hit THEN TapRow(g, clock) ELSE g : g \in game_state}
             /\ Finish(r, Reply(200, TRUE, "",
                                ReturnedState(TapRow(CHOOSE g \in hit : TRUE, clock))))
             /\ loc' = [loc EXCEPT ![r] = [NoLoc EXCEPT !.applied = TRUE]]
  /\ UNCHANGED <<players, players_id_seq, clock, req, gs0, solo, aside>>

\* upgrade: "SELECT tokens, tap_power", the cost and the token check
UpgradeRead(r) ==
  /\ pc[r] = "upgrade_read"
  /\ IF StateRows(loc[r].pid) = {}
     THEN /\ Finish(r, Reply(400, FALSE, "TypeError", NoState))
          /\ loc' = [loc EXCEPT ![r] = NoLoc]
     ELSE LET cur == StateOf(loc[r].pid)
              cost == UpgradeCost(cur.tap_power)
          IN IF cur.tokens < cost
             THEN /\ pc' = [pc EXCEPT ![r] = "load_state"]
                  /\ UNCHANGED <<loc, resp>>
             ELSE /\ pc' = [pc EXCEPT ![r] = "upgrade_write"]
                  /\ loc' = [loc EXCEPT ![r].cost = cost]
                  /\ UNCHANGED resp
  /\ UNCHANGED <<players, game_state, players_id_seq, clock, req, gs0, solo, aside>>

\* the upgrade UPDATE: SET tokens = tokens - $2, tap_power = tap_power + 1
UpgradeRow(g, cost, now) ==
  [g EXCEPT !.tokens = g.tokens - cost,
            !.tap_power = g.tap_power + 1,
            !.last_update = now]

UpgradeWrite(r) ==
  /\ pc[r] = "upgrade_write"
  /\ game_state' = {IF g.player_id = loc[r].pid
                    THEN UpgradeRow(g, loc[r].cost, clock) ELSE g : g \in game_state}
  /\ Finish(r, Reply(200, TRUE, "",
                     ReturnedState(UpgradeRow(StateOf(loc[r].pid), loc[r].cost, clock))))
  /\ loc' = [loc EXCEPT ![r] = [NoLoc EXCEPT !.applied = TRUE]]
  /\ UNCHANGED <<players, players_id_seq, clock, req, gs0, solo, aside>>

\* loadState and the response built from it: auth, the skipped tap and the
\* upgrade with too few tokens
LoadReply(kind, state) ==
  IF kind = "upgrade" THEN Reply(200, FALSE, "Not enough coins", state)
  ELSE Reply(200, TRUE, "", state)

LoadState(r) ==
  /\ pc[r] = "load_state"
  /\ Finish(r, LoadReply(req[r].kind, LoadedState(loc[r].pid)))
  /\ loc' = [loc EXCEPT ![r] = NoLoc]
  /\ UNCHANGED <<players, game_state, players_id_seq, clock, req, gs0, solo, aside>>

\* ------------------------------------------- repair of stored rows
\* SQL COALESCE(v, d) and NULLIF(v, x)
Coalesce(v, d) == IF v = NullNum THEN d ELSE v
NullIf(v, x) == IF v = x THEN NullNum ELSE v

\* initTables, step 4: UPDATE game_state SET ... (every row)
RepairRow(g, now) ==
  [g EXCEPT !.tokens = Coalesce(g.tokens, 0),
            !.level = Coalesce(g.level, 1),
            !.tap_power = Coalesce(NullIf(g.tap_power, 0), 1),
            !.cap = Coalesce(NullIf(g.cap, 0), 100),
            !.regen_per_sec = Coalesce(NullIf(g.regen_per_sec, 0), 2),
            !.energy = IF g.energy = NullNum \/ g.energy < Milli(1)
                       THEN Milli(100) ELSE g.energy,
            !.last_update = Coalesce(g.last_update, now)]

\* A server process starts: await initTables(); app.listen(PORT).  initTables
\* issues its statements one by one, and other programs' statements may run
\* between them.  Steps 1 and 2 up to "ADD COLUMN IF NOT EXISTS last_update":
\* the tables exist, the other columns a row lacks are read as NULL, so the
\* column last_update is what these statements add.
InitColumns ==
  /\ starting = "no" /\ ~booted
  /\ stamped' = TRUE
  /\ starting' = "repair"
  /\ UNCHANGED <<players, game_state, players_id_seq, clock, pc, req, loc, resp, gs0, solo,
                 booted, verify, board>>

\* initTables, steps 3 and 4: the column defaults, which new rows are
\* written with (NewGameState), and the repair UPDATE
Repair ==
  /\ starting = "repair"
  /\ game_state' = {RepairRow(g, clock) : g \in game_state}
  /\ starting' = "listen"
  /\ UNCHANGED <<players, players_id_seq, clock, pc, req, loc, resp, gs0, solo,
                 booted, stamped, verify, board>>

\* initTables, step 5 (the index), and app.listen: requests are served
Listen ==
  /\ starting = "listen"
  /\ booted' = TRUE
  /\ starting' = "no"
  /\ UNCHANGED <<players, game_state, players_id_seq, clock, pc, req, loc, resp, gs0, solo,
                 stamped, verify, board>>

\* A further server process starts on a database in use, while requests
\* are served.  Its initTables finds the tables, the columns and the
\* defaults in place: of its statements only the repair UPDATE changes
\* anything, and that statement is the step.
Restart ==
  /\ booted /\ starting = "no"
  /\ game_state' = {RepairRow(g, clock) : g \in game_state}
  /\ UNCHANGED <<players, players_id_seq, clock, pc, req, loc, resp, gs0, solo, aside>>

\* scripts/fixGameState.js, its UPDATE: cap, regen_per_sec, energy and
\* last_update only
FixRow(g, now) ==
  [g EXCEPT !.cap = Coalesce(NullIf(g.cap, 0), 100),
            !.regen_per_sec = Coalesce(NullIf(g.regen_per_sec, 0), 2),
            !.energy = IF g.energy = NullNum \/ g.energy < Milli(1)
                       THEN Milli(100) ELSE g.energy,
            !.last_update = Coalesce(g.last_update, now)]

\* scripts/fixGameState.js is run against the database, whether a server
\* listens or not.  On a table without the column last_update its ALTER
\* COLUMN last_update fails and the UPDATE is never issued.
FixGameState ==
  /\ game_state' = IF stamped THEN {FixRow(g, clock) : g \in game_state} ELSE game_state
  /\ UNCHANGED <<players, players_id_seq, clock, pc, req, loc, resp, gs0, solo, aside>>

Step(r) ==
  \/ Start(r)
  \/ EnsureState(r)
  \/ RegenRead(r)
  \/ RegenCalc(r)
  \/ RegenWrite(r)
  \/ TapUpdate(r)
  \/ UpgradeRead(r)
  \/ UpgradeWrite(r)
  \/ LoadState(r)

Next ==
  \/ Tick
  \/ Restart
  \/ FixGameState
  \/ \E r \in Reqs : Step(r)

Spec == Init /\ [][Next]_vars

TypeOK ==
  /\ pc \in [Reqs -> {"idle", "ensure_state",
                      "regen_read", "regen_calc", "regen_write", "tap_update",
                      "upgrade_read", "upgrade_write", "load_state", "done"}]
  /\ clock \in 0..(MaxTicks * TickMs)
  /\ \A g \in game_state : g.player_id \in {p.id : p \in players}

\* the response has been sent; the next request of the client arrives later
Recycle(r) ==
  /\ pc[r] = "done"
  /\ pc' = [pc EXCEPT ![r] = "idle"]
  /\ req' = [req EXCEPT ![r] = NoReq]
  /\ loc' = [loc EXCEPT ![r] = NoLoc]
  /\ resp' = [resp EXCEPT ![r] = NoResp]
  /\ solo' = [solo EXCEPT ![r] = TRUE]
  /\ UNCHANGED <<players, game_state, players_id_seq, clock, gs0, aside>>

\* ------------------------------------------------ regen taken on its own
\* applyRegen with its SELECT, its Date.now() and its UPDATE all at time t
Regen(g, t) == RegenRow(g, RegenEnergy(g, t), t)

\* elapsed times (ms) regen is applied after: none, fractions of a unit,
\* and long enough to fill a row from 75 or from 0 to cap
RegenOffsets == {0, 250, 750, 12000, 13000, 50000}

\* stored energies (thousandths) a regen starts from
RegenEnergies == {0, 500, 1000, 75000, 99500, 100000}

InitRegen ==
  /\ players = {PlayerRow(1, 1, NullUser)}
  /\ players_id_seq = 1
  /\ \E e \in RegenEnergies, rate \in {1, DefaultRegen} :
       game_state = {[NewGameState(1, 0) EXCEPT !.energy = e, !.regen_per_sec = rate]}
  /\ clock = 0
  /\ pc = [r \in Reqs |-> "idle"]
  /\ req = [r \in Reqs |-> NoReq]
  /\ loc = [r \in Reqs |-> NoLoc]
  /\ resp = [r \in Reqs |-> NoResp]
  /\ gs0 = game_state
  /\ solo = [r \in Reqs |-> TRUE]
  /\ booted = TRUE
  /\ stamped = TRUE
  /\ starting = "no"
  /\ verify = NoVerify
  /\ board = <<>>

\* time passes, up to one of the times of RegenOffsets
Elapse ==
  /\ \E t \in RegenOffsets : t > clock /\ clock' = t
  /\ UNCHANGED <<players, game_state, players_id_seq, pc, req, loc, resp, gs0, solo, aside>>

\* a request that changes the row through applyRegen only: an upgrade of a
\* player who has no tokens
RegenStart ==
  /\ Start(1)
  /\ req'[1].kind = "upgrade"

\* such requests are served one after the other while time passes
NextRegen ==
  \/ Elapse
  \/ RegenStart
  \/ RegenRead(1)
  \/ RegenCalc(1)
  \/ RegenWrite(1)
  \/ UpgradeRead(1)
  \/ LoadState(1)
  \/ Recycle(1)

SpecRegen == InitRegen /\ [][NextRegen]_vars

\* ---------------------------------------- start-up on a database of old rows
\* column values of rows written before the columns had defaults: NULL, or
\* what the program writes
LegacyCaps == {NullNum, 100}
LegacyRegens == {NullNum, 2}
LegacyEnergies == {NullNum, 0, 500, 1000, 3000}
LegacyStamps == {NullNum, 0}
\* tokens, level, tap_power of a row: written with the defaults, or before
\* the columns existed
LegacyCounters == {<<DefaultTokens, DefaultLevel, DefaultTapPower>>,
                   <<NullNum, NullNum, NullNum>>}

\* the database a server process finds when it starts
InitLegacy ==
  /\ players = {PlayerRow(1, 1, NullUser)}
  /\ players_id_seq = 1
  /\ \E c \in LegacyCaps, rate \in LegacyRegens, e \in LegacyEnergies, lu \in LegacyStamps,
        n \in LegacyCounters :
       game_state = {[NewGameState(1, 0) EXCEPT !.cap = c, !.regen_per_sec = rate,
                                                !.energy = e, !.last_update = lu,
                                                !.tokens = n[1], !.level = n[2],
                                                !.tap_power = n[3]]}
  /\ stamped \in BOOLEAN
  /\ starting = "no"
  /\ stamped \/ \A g \in game_state : g.last_update = NullNum
  /\ clock = 0
  /\ pc = [r \in Reqs |-> "idle"]
  /\ req = [r \in Reqs |-> NoReq]
  /\ loc = [r \in Reqs |-> NoLoc]
  /\ resp = [r \in Reqs |-> NoResp]
  /\ gs0 = game_state
  /\ solo = [r \in Reqs |-> TRUE]
  /\ booted = FALSE
  /\ verify = NoVerify
  /\ board = <<>>

\* one client of user 1, tapping, one request after the other, until
\* MaxLegacyTaps taps have been applied
LegacyStart ==
  /\ \A g \in game_state : Num(g.tokens) < MaxLegacyTaps
  /\ Start(1)
  /\ req'[1].kind = "tap" /\ req'[1].cred = "ok" /\ req'[1].tg = 1

NextLegacy ==
  \/ InitColumns
  \/ Repair
  \/ Listen
  \/ Restart
  \/ FixGameState
  \/ booted /\ Tick
  \/ booted /\ LegacyStart
  \/ RegenRead(1)
  \/ RegenCalc(1)
  \/ RegenWrite(1)
  \/ TapUpdate(1)
  \/ LoadState(1)
  \/ Recycle(1)

SpecLegacy == InitLegacy /\ [][NextLegacy]_vars

\* ------------------------------------------------------------ leaderboard
\* tokens of the players at the lower end of the board
BoardTokens == {0, 20, 40}

\* NumBoardPlayers players have signed in and tapped; all but the last three
\* hold different token counts
InitBoard ==
  /\ players = {PlayerRow(i, i, UserObj(i, IF i % 2 = 0 THEN "al" ELSE NULL)) :
                  i \in 1..NumBoardPlayers}
  /\ players_id_seq = NumBoardPlayers
  /\ \E low \in [(NumBoardPlayers - 2)..NumBoardPlayers -> BoardTokens] :
       game_state = {[NewGameState(i, 0) EXCEPT
                        !.tokens = IF i \in DOMAIN low THEN low[i] ELSE 100 + 10 * i] :
                      i \in 1..NumBoardPlayers}
  /\ clock = 0
  /\ pc = [r \in Reqs |-> "idle"]
  /\ req = [r \in Reqs |-> NoReq]
  /\ loc = [r \in Reqs |-> NoLoc]
  /\ resp = [r \in Reqs |-> NoResp]
  /\ gs0 = game_state
  /\ solo = [r \in Reqs |-> TRUE]
  /\ booted = TRUE
  /\ stamped = TRUE
  /\ starting = "no"
  /\ verify = NoVerify
  /\ board = <<>>

\* FROM game_state gs JOIN players p ON p.id = gs.player_id
JoinedRows ==
  {[username |-> p.username, tokens |-> g.tokens, id |-> p.id] :
     <<g, p>> \in {x \in game_state \X players : x[2].id = x[1].player_id}}

\* ORDER BY gs.tokens DESC: every order of the rows with tokens descending;
\* the order among rows of equal tokens is not specified
RECURSIVE OrderByTokensDesc(_)
OrderByTokensDesc(rows) ==
  IF rows = {} THEN {<<>>}
  ELSE LET first == {x \in rows : \A y \in rows : x.tokens >= y.tokens}
       IN  UNION {{<<x>> \o rest : rest \in OrderByTokensDesc(rows \ {x})} : x \in first}

\* LIMIT 10
Limit(rows, n) == SubSeq(rows, 1, Min(n, Len(rows)))

\* rows.map((r) => ({ username: r.username || "player", tokens: Number(r.tokens) || 0 }))
TopEntry(r) ==
  [username |-> IF OrNull(r.username) = NULL THEN "player" ELSE r.username,
   tokens |-> Num(r.tokens)]

\* GET /api/leaderboard
LeaderboardRead ==
  /\ Len(board) < MaxReads
  /\ \E rows \in OrderByTokensDesc(JoinedRows) :
       LET top == Limit(rows, BoardLimit)
       IN  board' = Append(board, [i \in DOMAIN top |-> TopEntry(top[i])])
  /\ UNCHANGED <<players, game_state, players_id_seq, clock, pc, req, loc, resp,
                 gs0, solo, booted, stamped, starting, verify>>

NextBoard == LeaderboardRead

SpecBoard == InitBoard /\ [][NextBoard]_vars

\* --------------------------------------- validateInitData taken on its own
\* the fields of an initData: auth_date and query_id and user, each present
\* or not
FieldsOf(a, qid, u) ==
  SelectSeq(<<<<"auth_date", a>>, <<"query_id", qid>>, <<"user", u>>>>,
            LAMBDA e : e[2] # "")

AllFields ==
  {FieldsOf(a, qid, u) :
     a \in {"", "1", "2"}, qid \in {"", "q"},
     u \in {""} \cup {UserJson(tg, un) : tg \in PairIds, un \in Usernames}}

\* the entries of seq in every order
Perms(seq) ==
  LET n == Len(seq)
  IN  {[i \in 1..n |-> seq[f[i]]] :
         f \in {g \in [1..n -> 1..n] : \A a, b \in 1..n : g[a] = g[b] => a = b}}

\* An initData arrives: Telegram has signed the fields `signed`; what arrives
\* are the fields `fields` (the same ones or others), with that hash or
\* without one, in some order.
InitVerify ==
  /\ players = {}
  /\ game_state = {}
  /\ players_id_seq = 0
  /\ clock = 0
  /\ pc = [r \in Reqs |-> "idle"]
  /\ req = [r \in Reqs |-> NoReq]
  /\ loc = [r \in Reqs |-> NoLoc]
  /\ resp = [r \in Reqs |-> NoResp]
  /\ gs0 = game_state
  /\ solo = [r \in Reqs |-> TRUE]
  /\ booted = TRUE
  /\ stamped = TRUE
  /\ starting = "no"
  /\ board = <<>>
  /\ \E signed \in AllFields, fields \in AllFields, withHash \in BOOLEAN :
       \E sent \in Perms(IF withHash
                         THEN Append(fields, <<"hash", HashOf(signed, BotToken)>>)
                         ELSE fields) :
         verify = [signed |-> signed, initData |-> sent,
                   verdict |-> Verdict("", NullUser), done |-> FALSE]

\* validateInitData(initData, BOT_TOKEN)
Validate ==
  /\ ~verify.done
  /\ verify' = [verify EXCEPT !.verdict = ValidateInitData(verify.initData, BotToken),
                              !.done = TRUE]
  /\ UNCHANGED <<players, game_state, players_id_seq, clock, pc, req, loc, resp,
                 gs0, solo, booted, stamped, starting, board>>

NextVerify == Validate

SpecVerify == InitVerify /\ [][NextVerify]_vars

\* ------------------------------------------------- requests served for ever
\* a player who has used up the energy (or all but half a unit of it)
InitLive ==
  /\ players = {PlayerRow(1, 1, NullUser)}
  /\ players_id_seq = 1
  /\ \E e \in {0, 500} :
       game_state = {[NewGameState(1, 0) EXCEPT !.tokens = DefaultEnergy,
                                                !.energy = e]}
  /\ clock = 0
  /\ pc = [r \in Reqs |-> "idle"]
  /\ req = [r \in Reqs |-> NoReq]
  /\ loc = [r \in Reqs |-> NoLoc]
  /\ resp = [r \in Reqs |-> NoResp]
  /\ gs0 = game_state
  /\ solo = [r \in Reqs |-> TRUE]
  /\ booted = TRUE
  /\ stamped = TRUE
  /\ starting = "no"
  /\ verify = NoVerify
  /\ board = <<>>

\* the age (ms) from which applyRegen computes cap whatever the stored
\* energy (>= 0) is: regen_per_sec * age >= cap
FullAge(g) ==
  LET regen == safeNum(g.regen_per_sec, DefaultRegen)
  IN  (Milli(safeNum(g.cap, DefaultCap)) + regen - 1) \div regen

\* the times that pass in one step: a fraction of a second, or the time that
\* fills an empty row of a new player
LiveDurations == {TickMs, Milli(DefaultCap) \div DefaultRegen}

\* Time passes.  Times are kept relative to the present: the clock stays and
\* every last_update, stored or read by a handler, moves into the past.
\* Short times pass while the rows are younger than MaxTicks * TickMs, long
\* ones while they are younger than FullAge, from which on applyRegen
\* computes cap.
LiveTick ==
  /\ \E d \in LiveDurations :
       /\ \A g \in game_state \cup UNION {loc[r].rows : r \in Reqs} :
            clock - g.last_update < (IF d = TickMs THEN MaxTicks * TickMs ELSE FullAge(g))
       /\ game_state' = {[g EXCEPT !.last_update = g.last_update - d] : g \in game_state}
       /\ loc' = [r \in Reqs |->
                   [loc[r] EXCEPT !.rows = {[g EXCEPT !.last_update = g.last_update - d] :
                                             g \in loc[r].rows}]]
  /\ UNCHANGED <<players, players_id_seq, clock, pc, req, resp, gs0, solo, aside>>

\* no tap has been applied so far
NoneApplied == \A q \in Reqs : ~loc[q].applied

\* the clients of user 1 keep tapping until a tap is applied
LiveStart(r) ==
  /\ NoneApplied
  /\ Start(r)
  /\ req'[r].kind = "tap" /\ req'[r].cred = "ok" /\ req'[r].tg = 1

LiveStep(r) ==
  \/ LiveStart(r)
  \/ RegenRead(r)
  \/ RegenCalc(r)
  \/ RegenWrite(r)
  \/ TapUpdate(r)
  \/ LoadState(r)
  \/ NoneApplied /\ Recycle(r)

NextLive ==
  \/ LiveTick
  \/ \E r \in Reqs : LiveStep(r)

\* time keeps advancing and every request keeps taking its steps
SpecLive ==
  /\ InitLive
  /\ [][NextLive]_vars
  /\ WF_vars(LiveTick)
  /\ \A r \in Reqs : WF_vars(LiveStep(r))

\* ------------------------------------------------------------ two players
\* Requests of the users of Spec and of one more user, all with a valid
\* initData.  The database is empty, or the first users have signed in once,
\* in the order of the ids, and each has made 25 back-to-back taps.
InitPair ==
  /\ \E n \in 0..NumUsers :
        /\ players = {PlayerRow(tg, tg, NullUser) : tg \in 1..n}
        /\ game_state = {[NewGameState(tg, 0) EXCEPT
                            !.tokens = 25 * DefaultTapPower,
                            !.energy = Milli(DefaultEnergy - 25 * TapEnergy)] :
                          tg \in 1..n}
        /\ players_id_seq = n
  /\ clock = 0
  /\ pc = [r \in Reqs |-> "idle"]
  /\ req = [r \in Reqs |-> NoReq]
  /\ loc = [r \in Reqs |-> NoLoc]
  /\ resp = [r \in Reqs |-> NoResp]
  /\ gs0 = game_state
  /\ solo = [r \in Reqs |-> TRUE]
  /\ booted = TRUE
  /\ stamped = TRUE
  /\ starting = "no"
  /\ verify = NoVerify
  /\ board = <<>>

PairStart(r) ==
  /\ StartFrom(r, PairIds)
  /\ req'[r].cred = "ok" /\ req'[r].username = NULL

PairStep(r) ==
  \/ PairStart(r)
  \/ EnsureState(r)
  \/ RegenRead(r)
  \/ RegenCalc(r)
  \/ RegenWrite(r)
  \/ TapUpdate(r)
  \/ UpgradeRead(r)
  \/ UpgradeWrite(r)
  \/ LoadState(r)

\* time passes once, at any point of the interleaving
PairTick == clock = 0 /\ Tick

NextPair ==
  \/ PairTick
  \/ \E r \in Reqs : PairStep(r)

SpecPair == InitPair /\ [][NextPair]_vars

\* ------------------------------------------------------------ credentials
\* Requests of user 1 with every class of initData, valid and invalid.
CredStart(r) == StartFrom(r, TgIds)

CredStep(r) ==
  \/ CredStart(r)
  \/ EnsureState(r)
  \/ RegenRead(r)
  \/ RegenCalc(r)
  \/ RegenWrite(r)
  \/ TapUpdate(r)
  \/ UpgradeRead(r)
  \/ UpgradeWrite(r)
  \/ LoadState(r)

NextCreds ==
  \/ PairTick
  \/ \E r \in Reqs : CredStep(r)

SpecCreds == Init /\ [][NextCreds]_vars

\* ================================================================ claims
AllDone == \A r \in Reqs : pc[r] = "done"

\* every request of the behaviour is a validly signed `kind` request of user 1
AllAre(kinds) ==
  \A r \in Reqs : req[r].kind \in kinds /\ req[r].cred = "ok" /\ req[r].tg = 1

Applied(r) == loc[r].applied
Row0 == CHOOSE g \in gs0 : g.player_id = 1

\* C1: N concurrent taps, no time elapsing, on a player whose energy is an
\* integer k < N: exactly k taps succeed, N - k are skipped, tokens grow by
\* k * tap_power and the final energy is 0.
C1_ConcurrentTapsExactlyK ==
  (AllDone /\ clock = 0 /\ gs0 # {} /\ AllAre({"tap"})) =>
    LET k == Row0.energy \div Milli(TapEnergy)
        g == StateOf(1)
    IN  (Row0.energy = Milli(k) /\ NumReqs > k) =>
          /\ Cardinality({r \in Reqs : Applied(r)}) = k
          /\ g.tokens = Row0.tokens + k * Row0.tap_power
          /\ g.energy = 0

\* C2: tokens >= 0 in every reachable state, also when upgrades interleave.
C2_TokensNonNegative == \A g \in game_state : g.tokens >= 0

\* ---- the per-player state machine of one request run on its own, with no
\* ---- time elapsing (regen adds nothing): the serial semantics of C3
SerialTap(s) ==
  IF s.energy >= Milli(1)
  THEN [st |-> [s EXCEPT !.energy = s.energy - Milli(1),
                         !.tokens = s.tokens + s.tap_power], ok |-> TRUE]
  ELSE [st |-> s, ok |-> FALSE]

SerialUpgrade(s) ==
  LET cost == IF s.tap_power * 20 > 10 THEN s.tap_power * 20 ELSE 10
  IN  IF s.tokens >= cost
      THEN [st |-> [s EXCEPT !.tokens = s.tokens - cost,
                             !.tap_power = s.tap_power + 1], ok |-> TRUE]
      ELSE [st |-> s, ok |-> FALSE]

SerialStep(s, kind) == IF kind = "tap" THEN SerialTap(s) ELSE SerialUpgrade(s)

\* the state after the requests order[1..n] have run one after the other
RECURSIVE SerialState(_, _, _)
SerialState(s, order, n) ==
  IF n = 0 THEN s
  ELSE SerialStep(SerialState(s, order, n - 1), req[order[n]].kind).st

\* the outcome of request order[n] in that serial run
SerialOutcome(s, order, n) ==
  SerialStep(SerialState(s, order, n - 1), req[order[n]].kind).ok

Orders == {f \in [Reqs -> Reqs] : \A a, b \in Reqs : f[a] = f[b] => a = b}

Core(g) == [tokens |-> g.tokens, tap_power |-> g.tap_power, energy |-> g.energy]

\* C3: the final stored state and every request's outcome of concurrent
\* tap/upgrade requests of one player equal those of some serial order.
C3_SerialEquivalence ==
  (AllDone /\ clock = 0 /\ gs0 # {} /\ AllAre({"tap", "upgrade"})) =>
    \E order \in Orders :
      /\ Core(StateOf(1)) = SerialState(Core(Row0), order, NumReqs)
      /\ \A n \in Reqs : Applied(order[n]) = SerialOutcome(Core(Row0), order, n)

\* request r has written its regen catch-up to the row and has not yet
\* applied its tap or upgrade
RegenOnly(r) ==
  /\ req[r].kind \in {"tap", "upgrade"}
  /\ pc[r] \in {"tap_update", "upgrade_read", "upgrade_write"}
  /\ StateRows(loc[r].pid) # {}

\* request q issues a statement on the game_state row of player pid in this step
TouchesState(q, pid) ==
  /\ pc[q] \in {"ensure_state", "regen_read", "regen_write", "tap_update",
                "upgrade_read", "upgrade_write", "load_state"}
  /\ loc[q].pid = pid
  /\ pc'[q] # pc[q]

\* C4: regen catch-up and the action's effect are one atomic write: no other
\* request reads or writes the row while it holds a request's regen
\* catch-up without that request's tap/upgrade effect.
C4_RegenAndActionAtomic ==
  [][\A r, q \in Reqs :
       (r # q /\ RegenOnly(r)) => ~TouchesState(q, loc[r].pid)]_vars

\* C5: 0 <= energy <= cap for every stored GameState.
C5_EnergyWithinCap ==
  \A g \in game_state : 0 <= g.energy /\ g.energy <= Milli(g.cap)

\* a request is about to write a regen catch-up that the cap has clipped, on
\* a row that a tap has already drawn from
C5_Witness ==
  \E r \in Reqs :
    /\ pc[r] = "regen_write"
    /\ LET g == StateOf(loc[r].pid)
       IN /\ g.tokens > 0
          /\ g.energy < Milli(g.cap)
          /\ g.energy + g.regen_per_sec * (clock - g.last_update) > Milli(g.cap)
          /\ loc[r].energy = Milli(g.cap)

\* the step in which request r issues the statement of pc value `at`
Issues(r, at) == pc[r] = at /\ pc'[r] # at

\* an applied tap answers 200, ok: true, no error; a skipped tap is flagged
\* when its answer differs from that in something other than the numbers
SkipFlagged(rp) == <<rp.status, rp.ok, rp.error>> # <<200, TRUE, "">>

\* C6: a tap run alone: with (caught-up) energy >= 1 it adds tap_power tokens
\* and takes 1 energy; with energy < 1 it leaves tokens alone and its result
\* is flagged as skipped.
C6_TapAlone ==
  [][\A r \in Reqs : (req[r].kind = "tap" /\ solo[r]) =>
       /\ Issues(r, "tap_update") =>
            LET g == StateOf(loc[r].pid)
                h == CHOOSE x \in game_state' : x.player_id = loc[r].pid
            IN IF g.energy >= Milli(1)
               THEN /\ h.tokens = g.tokens + g.tap_power
                    /\ h.energy = g.energy - Milli(1)
                    /\ ~SkipFlagged(resp'[r])
               ELSE /\ h.tokens = g.tokens
                    /\ pc'[r] = "load_state"
       /\ Issues(r, "load_state") =>
            /\ UNCHANGED game_state
            /\ SkipFlagged(resp'[r])]_vars

\* C7: an upgrade run alone, cost = max(10, tap_power * 20): with
\* tokens >= cost it adds 1 to tap_power, takes cost tokens and answers
\* ok = true; otherwise tokens and tap_power stay and the answer has
\* ok = false, a reason, the current state, and cost > tokens.
C7_UpgradeAlone ==
  [][\A r \in Reqs : (req[r].kind = "upgrade" /\ solo[r] /\ StateRows(loc[r].pid) # {}) =>
       LET g == StateOf(loc[r].pid)
           h == CHOOSE x \in game_state' : x.player_id = loc[r].pid
           cost == IF g.tap_power * 20 > 10 THEN g.tap_power * 20 ELSE 10
       IN /\ Issues(r, "upgrade_read") =>
               /\ h = g
               /\ pc'[r] = IF g.tokens >= cost THEN "upgrade_write" ELSE "load_state"
          /\ Issues(r, "upgrade_write") =>
               /\ g.tokens >= cost
               /\ h.tap_power = g.tap_power + 1
               /\ h.tokens = g.tokens - cost
               /\ resp'[r].ok /\ resp'[r].status = 200
               /\ resp'[r].state.tokens = h.tokens
               /\ resp'[r].state.tap_power = h.tap_power
          /\ Issues(r, "load_state") =>
               /\ h = g
               /\ cost > g.tokens
               /\ ~resp'[r].ok /\ resp'[r].error # ""
               /\ resp'[r].state.tokens = g.tokens
               /\ resp'[r].state.tap_power = g.tap_power
               /\ resp'[r].state.upgrade_cost = cost]_vars

\* the spec's example: tokens 25, tap_power 1; the first upgrade has given
\* tokens 5, tap_power 2 and the next one, run alone, has failed
C7_Witness ==
  /\ \E g \in gs0 : g.tokens = 25 /\ g.tap_power = 1
  /\ \E g \in game_state : g.tokens = 5 /\ g.tap_power = 2
  /\ \A r \in Reqs : req[r].kind = "upgrade" /\ solo[r] /\ pc[r] = "done"
  /\ resp[1].ok /\ resp[1].state.upgrade_cost = 40
  /\ ~resp[NumReqs].ok /\ resp[NumReqs].error = "Not enough coins"
  /\ resp[NumReqs].state.tokens = 5

\* C8: every write that takes tap_power from p to p + 1 takes exactly
\* max(10, p * 20) tokens, p being the stored tap_power at the write.
C8_CostOfStoredTapPower ==
  [][\A g \in game_state : \A h \in game_state' :
       (h.player_id = g.player_id /\ h.tap_power = g.tap_power + 1) =>
         h.tokens = g.tokens - (IF g.tap_power * 20 > 10 THEN g.tap_power * 20 ELSE 10)]_vars

\* request r is an auth request past ensurePlayer's first statement, holding
\* the player row that statement returned
HoldsPlayer(r) ==
  /\ req[r].kind = "auth"
  /\ pc[r] \in {"ensure_state", "regen_read", "regen_calc", "regen_write", "load_state"}

\* C9: ensure(identity) run twice for one external ID, at once or in turn,
\* leaves one Player row and one GameState row; neither call errors and both
\* return the same Player row.
C9_EnsureIdempotent ==
  /\ \A tg \in TgIds : Cardinality(PlayerRows(tg)) <= 1
  /\ \A p \in players : Cardinality(StateRows(p.id)) <= 1
  /\ \A r \in Reqs :
       /\ HoldsPlayer(r) =>
            /\ Cardinality(PlayerRows(req[r].tg)) = 1
            /\ loc[r].pid = PlayerOf(req[r].tg).id
       /\ (HoldsPlayer(r) /\ pc[r] # "ensure_state") =>
            Cardinality(StateRows(loc[r].pid)) = 1
       /\ (req[r].kind = "auth" /\ req[r].cred = "ok" /\ pc[r] = "done") =>
            /\ resp[r].status = 200 /\ resp[r].ok
            /\ Cardinality(PlayerRows(req[r].tg)) = 1
            /\ Cardinality(StateRows(PlayerOf(req[r].tg).id)) = 1

\* two overlapping auth requests for one unseen external ID, with the same
\* metadata, have both completed
C9_Witness ==
  /\ gs0 = {}
  /\ \A r \in Reqs : req[r].kind = "auth" /\ req[r].cred = "ok" /\ pc[r] = "done"
                     /\ ~solo[r] /\ req[r].tg = req[1].tg
                     /\ req[r].username = req[1].username
  /\ players_id_seq = NumReqs
  /\ Cardinality(players) = 1 /\ Cardinality(game_state) = 1

\* request r has found its player row and works on that player's game_state
HasPlayer(r) ==
  /\ req[r].kind \in {"tap", "upgrade"}
  /\ pc[r] \in {"regen_read", "regen_calc", "regen_write", "tap_update",
                "upgrade_read", "upgrade_write", "load_state"}

\* C10: every Player row has exactly one GameState row in every state a
\* request can observe: a tap or upgrade that has found its Player finds the
\* GameState too.
C10_StateExistsWithPlayer ==
  \A r \in Reqs : HasPlayer(r) => Cardinality(StateRows(loc[r].pid)) = 1

\* C11: a request whose credential is missing, malformed or badly signed
\* ends at once with a failure (401 for auth, 400 for tap and upgrade) and
\* changes no stored row.
C11_BadCredentialRejected ==
  [][\A r \in Reqs : (Issues(r, "idle") /\ req'[r].cred # "ok") =>
       /\ pc'[r] = "done"
       /\ resp'[r].status = (IF req'[r].kind = "auth" THEN 401 ELSE 400)
       /\ ~resp'[r].ok /\ resp'[r].error # ""
       /\ UNCHANGED <<players, game_state, players_id_seq>>]_vars

\* an auth whose user has no id and a tap with a forged hash have both been
\* turned away from a database that holds a player
C11_Witness ==
  /\ gs0 # {} /\ game_state = gs0
  /\ \E r, q \in Reqs :
       /\ pc[r] = "done" /\ req[r].kind = "auth" /\ req[r].cred = "noid"
       /\ resp[r] = Reply(401, FALSE, "No user in initData", NoState)
       /\ pc[q] = "done" /\ req[q].kind = "tap" /\ req[q].cred = "badhash"
       /\ resp[q] = Reply(400, FALSE, "Bad initData hash", NoState)

\* C12: a validly signed tap or upgrade of a user that has no Player row is
\* answered 400 with ok = false, and no Player or GameState row is created
\* or changed.
C12_UnknownPlayerRejected ==
  [][\A r \in Reqs :
       (/\ Issues(r, "idle")
        /\ req'[r].kind \in {"tap", "upgrade"}
        /\ req'[r].cred = "ok"
        /\ PlayerRows(req'[r].tg) = {}) =>
          /\ pc'[r] = "done"
          /\ resp'[r].status = 400 /\ ~resp'[r].ok /\ resp'[r].error # ""
          /\ UNCHANGED <<players, game_state, players_id_seq>>]_vars

\* a tap and an upgrade of a user that never signed in have both been
\* answered while the rows of another user, who signed in before, exist
C12_Witness ==
  /\ players # {} /\ game_state # {}
  /\ \E r, q \in Reqs :
       /\ pc[r] = "done" /\ req[r].kind = "tap" /\ req[r].cred = "ok"
       /\ resp[r] = Reply(400, FALSE, "Player not found", NoState)
       /\ pc[q] = "done" /\ req[q].kind = "upgrade" /\ req[q].cred = "ok"
       /\ resp[q] = Reply(400, FALSE, "Player not found", NoState)
       /\ PlayerRows(req[r].tg) = {} /\ PlayerRows(req[q].tg) = {}

ValidState(g) ==
  g.cap > 0 /\ g.regen_per_sec > 0 /\ 0 <= g.energy /\ g.energy <= Milli(g.cap)

\* C13: for every row with valid fields and t0 <= t1 <= t2
\* (t0 = last_update), regen at t1 and then at t2 gives the row that regen at
\* t2 gives directly; the energy does not decrease with the elapsed time and
\* is never above cap.  The stored row, whatever regens have produced it, is
\* the one a single regen of the initial row at its last_update gives.
C13_RegenComposableMonotone ==
  \A g \in game_state : ValidState(g) =>
    /\ g = Regen(Row0, g.last_update)
    /\ \A d1, d2 \in RegenOffsets : d1 <= d2 =>
         LET t1 == g.last_update + d1
             t2 == g.last_update + d2
         IN  /\ Regen(Regen(g, t1), t2) = Regen(g, t2)
             /\ g.energy <= RegenEnergy(g, t1)
             /\ RegenEnergy(g, t1) <= RegenEnergy(g, t2)
             /\ RegenEnergy(g, t2) <= Milli(g.cap)

\* the stored row of player pid after the step
RowAfter(pid) == CHOOSE x \in game_state' : x.player_id = pid

\* C15: a tap run alone that is skipped for lack of energy leaves tokens and
\* tap_power alone and persists the regen catch-up: its regen write stores
\* energy = min(cap, old energy + regen_per_sec * elapsed) with the elapsed
\* time counted up to the stored last_update, the time of the write; the
\* answer has status 200 and carries the stored state.
C15_SkippedTapPersistsRegen ==
  [][\A r \in Reqs : (req[r].kind = "tap" /\ solo[r]) =>
       /\ (Issues(r, "regen_write") /\ loc[r].energy < Milli(TapEnergy)) =>
            LET g == StateOf(loc[r].pid)
                h == RowAfter(loc[r].pid)
            IN  /\ h.last_update = clock
                /\ h.energy = Min(Milli(g.cap),
                                  g.energy + g.regen_per_sec * (h.last_update - g.last_update))
                /\ h.tokens = g.tokens /\ h.tap_power = g.tap_power
       /\ (Issues(r, "tap_update") /\ pc'[r] = "load_state") => UNCHANGED game_state
       /\ Issues(r, "load_state") =>
            /\ UNCHANGED game_state
            /\ resp'[r].status = 200
            /\ resp'[r].state.energy = StateOf(loc[r].pid).energy
            /\ resp'[r].state.tokens = StateOf(loc[r].pid).tokens]_vars

\* C16: ensurePlayer for an external id that has a Player row sets username,
\* first_name, last_name and photo_url to the incoming values, null where the
\* incoming value is absent, keeps the row's id, and leaves the player's
\* GameState row as it is.
C16_EnsureOverwritesMetadata ==
  [][\A r \in Reqs :
       /\ (/\ Issues(r, "idle")
           /\ req'[r].kind = "auth" /\ req'[r].cred = "ok"
           /\ PlayerRows(req'[r].tg) # {}) =>
            LET old == PlayerOf(req'[r].tg)
                un == req'[r].username
            IN  /\ players' = (players \ {old}) \cup
                       {[id |-> old.id, tg_user_id |-> old.tg_user_id,
                         username |-> un,
                         first_name |-> IF un = NULL THEN NULL ELSE "Al",
                         last_name |-> NULL, photo_url |-> NULL]}
                /\ loc'[r].pid = old.id
                /\ UNCHANGED game_state
       /\ (Issues(r, "ensure_state") /\ StateRows(loc[r].pid) # {}) =>
            UNCHANGED game_state]_vars

\* a user whose stored row had all four fields set has signed in with no
\* metadata: ensurePlayer's two statements have run, the fields are null, the
\* id and the GameState row are the initial ones
C16_Witness ==
  /\ gs0 # {} /\ game_state = gs0
  /\ players = {[id |-> 1, tg_user_id |-> 1, username |-> NULL, first_name |-> NULL,
                 last_name |-> NULL, photo_url |-> NULL]}
  /\ \E r \in Reqs : req[r].kind = "auth" /\ req[r].username = NULL
                     /\ pc[r] = "regen_read" /\ loc[r].pid = 1

\* C17: no step lowers the stored last_update of a player, whatever the
\* interleaving of auth, tap and upgrade requests and their regen writes.
C17_LastUpdateMonotone ==
  [][\A g \in game_state : \A h \in game_state' :
       h.player_id = g.player_id => h.last_update >= g.last_update]_vars

\* after time has passed, a regen write (seen in the tap's state) and then a
\* tap have stamped a row that started at time 0, while another request that
\* read the row earlier is still to write
C17_Witness ==
  /\ clock > 0
  /\ \E r, q \in Reqs :
       /\ r # q /\ req[r].kind = "tap" /\ Applied(r) /\ pc[r] = "done"
       /\ pc[q] = "regen_write" /\ loc[q].pid = PlayerOf(req[r].tg).id
       /\ StateOf(loc[q].pid).last_update = clock
       /\ \E g \in gs0 : g.player_id = loc[q].pid /\ g.last_update < clock

\* the values C14 has regen and the repair work with
DefaultedCap(g) == IF g.cap = NullNum \/ g.cap <= 0 THEN 100 ELSE g.cap
DefaultedRegen(g) ==
  IF g.regen_per_sec = NullNum \/ g.regen_per_sec <= 0 THEN 2 ELSE g.regen_per_sec
DefaultedEnergy(g) ==
  IF g.energy = NullNum \/ g.energy < Milli(1) THEN Milli(DefaultedCap(g)) ELSE g.energy

\* C14: degenerate stored values are defaulted before use: cap to 100 and
\* regen_per_sec to 2 when null or <= 0, energy to the effective cap when
\* null or below 1; the start-up repair stores these values and the regen
\* step of a request computes with them.
C14_DegenerateValuesDefaulted ==
  [][/\ (starting = "repair" /\ starting' = "listen") =>
          \A g \in game_state :
            LET h == RowAfter(g.player_id)
            IN  /\ h.cap = DefaultedCap(g)
                /\ h.regen_per_sec = DefaultedRegen(g)
                /\ h.energy = DefaultedEnergy(g)
     /\ \A r \in Reqs : Issues(r, "regen_calc") =>
          LET g == CHOOSE st \in loc[r].rows : TRUE
              dt == Max(0, clock - Coalesce(g.last_update, clock))
          IN  loc'[r].energy = Min(Milli(DefaultedCap(g)),
                                   DefaultedEnergy(g) + DefaultedRegen(g) * dt)]_vars

\* the number of stored rows with more than (at least) v tokens
RowsAbove(v) == Cardinality({g \in game_state : g.tokens > v})
RowsFrom(v) == Cardinality({g \in game_state : g.tokens >= v})

\* C18: a leaderboard read answers at most 10 entries, tokens descending,
\* holding the highest stored token counts; two reads of the same stored
\* state answer the same sequence; the read changes no stored row.
C18_LeaderboardTopTen ==
  [][board' # board =>
       /\ UNCHANGED <<players, game_state>>
       /\ \A i \in DOMAIN board' :
            LET top == board'[i]
            IN  /\ Len(top) = Min(BoardLimit, Cardinality(game_state))
                /\ \A j \in DOMAIN top :
                     /\ j > 1 => top[j - 1].tokens >= top[j].tokens
                     /\ RowsAbove(top[j].tokens) < j
                     /\ j <= RowsFrom(top[j].tokens)
       /\ \A i, j \in DOMAIN board' : board'[i] = board'[j]]_vars

\* the key = value fields of an initData, the hash aside
FieldSet(entries) == {entries[i] : i \in {j \in DOMAIN entries : entries[j][1] # "hash"}}

\* C19: validateInitData gives the same outcome (error or user) for the same
\* fields and hash in any order; an initData that carries a hash and whose
\* fields differ from the signed ones in a name or a value fails with "Bad
\* initData hash", and one whose fields are the signed ones is accepted with
\* the user of its user field.
C19_OrderIndependentContentSensitive ==
  verify.done =>
    LET sent == verify.initData
        hashed == \E i \in DOMAIN sent : sent[i][1] = "hash"
    IN  /\ \A p \in Perms(sent) : ValidateInitData(p, BotToken) = verify.verdict
        /\ (hashed /\ FieldSet(sent) # FieldSet(verify.signed)) =>
              verify.verdict = Verdict("Bad initData hash", NullUser)
        /\ (hashed /\ FieldSet(sent) = FieldSet(verify.signed)) =>
              /\ verify.verdict.error = ""
              /\ \A e \in FieldSet(sent) :
                   e[1] = "user" => UserJson(verify.verdict.user.id,
                                             verify.verdict.user.username) = e[2]

\* an initData of three fields and the hash, sent with user first and the
\* hash second, has been accepted as user 1
C19_Witness ==
  /\ verify.done
  /\ Len(verify.initData) = 4
  /\ verify.initData[1][1] = "user" /\ verify.initData[2][1] = "hash"
  /\ verify.initData[3][1] = "query_id"
  /\ verify.verdict.error = "" /\ verify.verdict.user.id = 1

\* C20: when time keeps advancing and the requests of the player keep being
\* served, the stored energy eventually is at least 1 and a tap eventually
\* is applied.
C20_TapEventuallySucceeds ==
  /\ <>(\E g \in game_state : g.energy >= Milli(TapEnergy))
  /\ <>(\E r \in Reqs : Applied(r))

\* C21: no step raises the stored energy of a player by more than
\* regen_per_sec times the time elapsed since the row was last written
\* (the stored last_update); with no time elapsed no step raises it, so an
\* energy unit consumed by a successful tap is never handed back.
C21_EnergyRiseBoundedByRegen ==
  [][\A g \in game_state : \A h \in game_state' :
       h.player_id = g.player_id =>
         h.energy - g.energy <= safeNum(g.regen_per_sec, DefaultRegen) * (clock - g.last_update)]_vars

\* C22: a step of a request of user A (auth, tap or upgrade, any statement
\* of it) leaves the Player row and the GameState row of every other user B
\* as they are, whatever requests of A and B are interleaved.
C22_OtherPlayersUntouched ==
  [][\A r \in Reqs : pc'[r] # pc[r] =>
       \A b \in PairIds \ {req'[r].tg} :
         /\ {p \in players' : p.tg_user_id = b} = {p \in players : p.tg_user_id = b}
         /\ \A p \in players : p.tg_user_id = b =>
              {g \in game_state' : g.player_id = p.id} =
                {g \in game_state : g.player_id = p.id}]_vars

\* the tap of one user has been applied while the upgrade of another user is
\* between its read and its write: the tap shows in its owner's row only
C22_Witness ==
  \E r, q \in Reqs :
    /\ req[r].kind = "tap" /\ req[q].kind = "upgrade" /\ req[r].tg # req[q].tg
    /\ pc[r] = "done" /\ Applied(r) /\ pc[q] = "upgrade_write"
    /\ LET a == CHOOSE g \in game_state : g.player_id = PlayerOf(req[r].tg).id
           b == CHOOSE g \in game_state : g.player_id = PlayerOf(req[q].tg).id
       IN  /\ a.tokens = 26 /\ a.energy = Milli(74)
           /\ b.tokens = 25 /\ b.tap_power = 1 /\ b.energy = Milli(75)

====
